---- MODULE Spec2Model ----
\* A model of the DOCX template validation of SuffolkLITLab/ALActions:
\*   src/valid_jinja2/validate_docx.py        the validation engine
\*   src/valid_jinja2/check_docx_templates.py the batch driver (main)
\*
\* Strings are modelled as sequences of parts (each part a TLA+ string), so that
\* the empty string is <<>> and joining is concatenation with a separator part.
\* Optional[str] is a record [some, str]; None is [some |-> FALSE, str |-> <<>>].
\*
\* jinja2 and docxtpl are libraries outside the repository.  A document is
\* modelled by the sequence of template expressions in the order in which one
\* render attempt meets them; one attempt raises at the first expression that
\* cannot be compiled or rendered with the filter table it is given.
EXTENDS Integers, Sequences, FiniteSets, TLC

VARIABLES
    \* check_docx_templates.main
    changed,             \* list_changed_docx(base, head): the files of the batch
    mpc,                 \* position of main: "start", "loop", "validating", "report", "done"
    file_i,              \* index in changed of the file of the current loop round
    invalid_files,       \* main's counter
    missing_in_head,     \* main's list of skipped files
    html_index,          \* main's list of lines for index.html
    validation_result,   \* main's validation_result of the current file
    index_written,       \* whether index.html was written
    exit_status,         \* -1 while running, then the process exit status
    validated,           \* history: one record for every file main reported
    crashed,             \* history: the files whose validation raised in main
    \* get_jinja_errors_with_warnings
    pc,                  \* "idle", "loop", "post", "returned"
    result,              \* the ValidationResult being built
    raw_filters,         \* extract_filters_from_docx(the_file)
    all_unknown_filters, \* the stubbed filter names
    all_syntax_errors,   \* the set used to avoid duplicate messages
    iteration,           \* the for loop's variable: attempts made so far
    attempts,            \* history: one record for every attempt of this call
    stubbed,             \* history: the names the loop added to the stubbed set
    \* a ValidationResult driven directly through its methods
    vr,
    \* DAExtension.filter_stream, a generator run to its end
    stream,              \* the token stream it is given
    pos,                 \* index in stream of the token the for loop takes next
    met_pipe,            \* the generator's local met_pipe
    out,                 \* the tokens yielded so far
    injected_at,         \* history: the indexes of the tokens it injected before
    \* DAEnvironment.from_string, up to the call of the parser
    source,              \* the template text it is given
    qpc,                 \* "given", "parsed", "reparsed"
    parsed,              \* the text handed to the parser
    reparsed,            \* the text handed to the parser when given parsed
    \* a chain of operations on a CallAndDebugUndefined value
    origin,              \* the value the chain starts from
    obj,                 \* the value the chain has reached
    steps,               \* the number of operations applied
    last_op,             \* history: the last operation and its operand
    absorbing,           \* history: every operation so far is one that returns self
    \* the module-level state of validate_docx
    module_tables,       \* the keys of builtin_jinja_filters and of
                         \* builtin_docassemble_jinja_filters
    \* one call of an entry that validate_with_stubbed_filters put in env.filters
    stub_names,          \* the filter_names the function was given
    called,              \* the entry called and its arguments, once called
    returned,            \* what the call returned or raised
    \* da_install.install_to_server
    ipc,                 \* "start", "polling", "returned", "raised"
    resp,                \* the response to the install request
    sleep_count,         \* the function's sleep_count
    retval,              \* -1, then the value returned
    polls,               \* history: the number of polling requests made
    working_polls,       \* history: the number of polls that reported working
    other_polls,         \* history: the number of polls that reported a status
                         \* other than working, completed and unknown
    last_body            \* history: the body of the last poll

mainVars == <<changed, mpc, file_i, invalid_files, missing_in_head, html_index,
              validation_result, index_written, exit_status, validated,
              crashed>>
loopVars == <<pc, result, raw_filters, all_unknown_filters, all_syntax_errors,
              iteration, attempts, stubbed>>
streamVars == <<stream, pos, met_pipe, out, injected_at>>
quoteVars == <<source, qpc, parsed, reparsed>>
sentinelVars == <<origin, obj, steps, last_op, absorbing>>
moduleVars == <<module_tables>>
stubVars == <<stub_names, called, returned>>
installVars == <<ipc, resp, sleep_count, retval, polls, working_polls,
                 other_polls, last_body>>
restVars == <<quoteVars, sentinelVars, moduleVars, stubVars, installVars>>
\* The variables of the parts that main does not run.
apartVars == <<vr, streamVars, restVars>>
vars == <<mainVars, loopVars, apartVars>>

----------------------------------------------------------------------------
\* Bounds of the model.

\* Largest number of leading distinct unknown filters in a document.
MaxUnknown == 11
\* Largest number of further expressions after the leading unknown filters.
MaxTail == 2
\* Largest number of files in a batch of several files.
MaxFiles == 3
\* Largest number of entries added to a free-standing ValidationResult.
MaxCalls == 3
\* Largest number of tokens in a stream given to filter_stream.
MaxStream == 5
\* The largest number of pieces between the delimiters of a text.
MaxInner == 3
\* The largest number of operations applied in a chain to a sentinel.
MaxChain == 3
\* The largest number of polling requests of one install.
MaxPolls == 12

----------------------------------------------------------------------------
\* Filter names.

\* The keys of the module-level table builtin_jinja_filters.
builtin_jinja_filters ==
    { "round", "Decimal" }

\* The keys of the module-level table builtin_docassemble_jinja_filters.
builtin_docassemble_jinja_filters ==
    { "ampersand_filter", "markdown", "add_separators", "inline_markdown",
      "paragraphs", "manual_line_breaks", "RichText", "groupby", "max", "min",
      "sum", "unique", "join", "attr", "selectattr", "rejectattr", "sort",
      "dictsort", "nice_number", "ordinal", "ordinal_number", "currency",
      "comma_list", "comma_and_list", "capitalize", "salutation", "alpha",
      "roman", "word", "bold", "italic", "title_case", "single_paragraph",
      "phone_number_formatted", "phone_number_in_e164", "country_name",
      "fix_punctuation", "redact", "verbatim", "map", "chain", "catchall_options",
      "catchall_label", "catchall_datatype", "catchall_question",
      "catchall_subquestion", "if_final", "any", "all" }

\* The allowlist: names that never produce an unknown-filter warning.
get_known_filters ==
    { "abs", "attr", "batch", "capitalize", "center", "default", "dictsort",
      "escape", "filesizeformat", "first", "float", "forceescape", "format",
      "groupby", "indent", "int", "join", "last", "length", "list", "lower",
      "map", "max", "min", "pprint", "random", "reject", "rejectattr", "replace",
      "reverse", "round", "safe", "select", "selectattr", "slice", "sort",
      "string", "striptags", "sum", "title", "tojson", "trim", "truncate",
      "unique", "upper", "urlencode", "urlize", "wordcount", "wordwrap",
      "xmlattr", "any", "all", "enumerate", "sorted", "len", "ampersand_filter",
      "markdown", "add_separators", "inline_markdown", "paragraphs",
      "manual_line_breaks", "RichText", "nice_number", "ordinal",
      "ordinal_number", "currency", "comma_list", "comma_and_list", "salutation",
      "alpha", "roman", "word", "bold", "italic", "title_case",
      "single_paragraph", "phone_number_formatted", "phone_number_in_e164",
      "country_name", "fix_punctuation", "redact", "verbatim", "chain",
      "if_final", "catchall_options", "catchall_label", "catchall_datatype",
      "catchall_question", "catchall_subquestion", "showifdef", "currency_symbol",
      "indefinite_article", "possessify", "verb_past", "verb_present",
      "noun_plural", "noun_singular", "some", "indefinite", "a_preposition_b",
      "preposition_b", "capitalize_function", "section_links", "url_action",
      "interview_url", "interview_email", "static_image", "qr_code",
      "overlay_pdf", "pdf_concatenate", "strftime", "strptime", "today",
      "as_datetime", "format_date", "format_time", "current_datetime",
      "file_size", "mime_type", "extension", "filename", "float_to_currency",
      "percentage", "thousands" }

\* The filter table every jinja2 Environment starts with (jinja2's built-in
\* filters); DAEnvironment inherits it.
jinja_default_filters ==
    { "abs", "attr", "batch", "capitalize", "center", "count", "d", "default",
      "dictsort", "e", "escape", "filesizeformat", "first", "float",
      "forceescape", "format", "groupby", "indent", "int", "items", "join",
      "last", "length", "list", "lower", "map", "min", "max", "pprint",
      "random", "reject", "rejectattr", "replace", "reverse", "round", "safe",
      "select", "selectattr", "slice", "sort", "string", "striptags", "sum",
      "title", "trim", "truncate", "unique", "upper", "urlencode", "urlize",
      "wordcount", "wordwrap", "xmlattr", "tojson" }

\* Filter names of the model's documents that are in no table and not in the
\* allowlist, in the order in which a document uses them.
UnknownNames ==
    << "u01", "u02", "u03", "u04", "u05", "u06", "u07", "u08", "u09", "u10",
       "u11", "u12", "u13", "u14" >>

\* Names of get_known_filters that are in no filter table.
AllowedNames ==
    << "showifdef", "strftime", "strptime", "today", "as_datetime",
       "format_date", "format_time", "file_size", "mime_type", "extension",
       "filename", "percentage", "thousands", "len" >>

\* Every name the model's documents can have reported, in code point order (the
\* order of Python's sorted() on str).
SortedNames ==
    << "Decimal" >>
    \o UnknownNames \o << "yy", "zz" >>

\* sorted(names) for a set of names.
sorted(names) == SelectSeq(SortedNames, LAMBDA n : n \in names)

----------------------------------------------------------------------------
\* Strings and Optional[str].

None == [some |-> FALSE, str |-> <<>>]
Some(s) == [some |-> TRUE, str |-> s]

\* Python's truth value of an Optional[str]: None and "" are false.
Truthy(o) == o.some /\ o.str # <<>>

\* sep.join(list) for a list of strings.
RECURSIVE Join(_, _)
Join(sep, list) ==
    IF list = <<>> THEN <<>>
    ELSE IF Len(list) = 1 THEN list[1]
    ELSE list[1] \o <<sep>> \o Join(sep, Tail(list))

\* "needle in s" for a needle that is one part.
Contains(s, needle) == \E i \in DOMAIN s : s[i] = needle

----------------------------------------------------------------------------
\* class ValidationResult.

NewValidationResult ==
    [syntax_errors |-> <<>>, unknown_filters |-> {}, warnings |-> <<>>]

has_errors(r) == Len(r.syntax_errors) > 0

\* A has_warnings that looks at the warnings list only.
has_warnings_list_only(r) == Len(r.warnings) > 0

has_warnings(r) == Len(r.warnings) > 0 \/ Cardinality(r.unknown_filters) > 0

add_syntax_error(r, error) ==
    [r EXCEPT !.syntax_errors = Append(@, error)]

add_unknown_filter(r, filter_name) ==
    [r EXCEPT !.unknown_filters = @ \cup {filter_name}]

add_warning(r, warning) ==
    [r EXCEPT !.warnings = Append(@, warning)]

get_error_message(r) ==
    IF ~has_errors(r) THEN None
    ELSE Some(Join("\n\n", r.syntax_errors))

get_warnings_message(r) ==
    IF ~has_warnings(r) THEN None
    ELSE LET names == sorted(r.unknown_filters)
             filter_list == Join(", ", [i \in 1..Len(names) |-> <<names[i]>>])
             parts == (IF r.unknown_filters # {}
                          THEN << <<"Unknown filters detected: ">> \o filter_list >>
                          ELSE <<>>)
                      \o r.warnings
         IN Some(Join("\n\n", parts))

----------------------------------------------------------------------------
\* Documents.  One item is one template expression:
\*   var    {{ v | f }}       a filter use that the raw scan also sees
\*   block  {% if v | f %}    a filter use that the raw scan does not see (it
\*                            is not in a {{ }} expression, or is not the last
\*                            filter of its pipeline)
\*   bare   {{ v }}           no explicit filter: DAExtension injects
\*                            ampersand_filter
\*   quoted {{ "a | f" }}     no filter use (ampersand_filter is injected), but
\*                            its text has a pipe and a name inside a string
\*                            literal, which the raw scan captures
\*   broken                   violates the grammar; f is the name after its
\*                            last pipe, "" when its text has no pipe
\*   fault  {{ v * 2 }}       follows the grammar and uses no filter, but
\*                            rendering it raises an exception that is not a
\*                            TemplateSyntaxError (CallAndDebugUndefined
\*                            defines +, -, < and > only; for any other
\*                            operator jinja2's Undefined raises
\*                            UndefinedError)
\*   stuck                    the evaluator reports "No filter named 'f'" for
\*                            it whatever the filter table holds

Var(f) == [t |-> "var", f |-> f]
Block(f) == [t |-> "block", f |-> f]
Bare == [t |-> "bare", f |-> ""]
Quoted(f) == [t |-> "quoted", f |-> f]
Broken(f) == [t |-> "broken", f |-> f]
Fault == [t |-> "fault", f |-> ""]
Stuck(f) == [t |-> "stuck", f |-> f]

\* n leading uses of distinct unknown filters.
Prefix(n) == [i \in 1..n |-> Var(UnknownNames[i])]

\* n leading uses of distinct filters that are in the allowlist and in no table.
AllowedPrefix(n) == [i \in 1..n |-> Var(AllowedNames[i])]

TailItems ==
    { Var("zz"), Var("Decimal"), Block("zz"), Bare, Quoted("yy"), Broken(""),
      Broken("yy"), Fault, Stuck("zz") }

Tails == UNION { [1..k -> TailItems] : k \in 0..MaxTail }

ShortTails == UNION { [1..k -> TailItems] : k \in 0..(MaxTail - 1) }

\* The documents validated alone.
BigDocs ==
    { Prefix(n) \o tail : n \in 0..MaxUnknown, tail \in Tails }
    \cup { AllowedPrefix(n) \o tail : n \in 0..MaxUnknown, tail \in ShortTails }

\* The documents of a batch of several files.
SmallDocs ==
    { <<>>, <<Var("markdown")>>, <<Var("zz")>>, <<Broken("")>>, <<Fault>>,
      <<Var("zz"), Broken("yy")>> }

File(present, doc) == [present |-> present, doc |-> doc]

SmallFiles == { File(FALSE, <<>>) } \cup { File(TRUE, d) : d \in SmallDocs }

Batches ==
    { <<File(TRUE, d)>> : d \in BigDocs }
    \cup UNION { [1..k -> SmallFiles] : k \in 0..MaxFiles }

----------------------------------------------------------------------------
\* validate_with_stubbed_filters.

\* A filter table that leaves out the stubs.
EnvFiltersWithoutStubs(filter_names) ==
    jinja_default_filters \cup module_tables.builtin_jinja_filters
    \cup module_tables.builtin_docassemble_jinja_filters

\* The filter table of the environment of one attempt: a new Environment's
\* table, updated from the two module-level tables, then the stubs.
EnvFilters(filter_names) ==
    jinja_default_filters \cup module_tables.builtin_jinja_filters
    \cup module_tables.builtin_docassemble_jinja_filters \cup filter_names

\* Module-level tables that the stubs are written into.
TablesSharedWithEnv(tables, filter_names) ==
    [tables EXCEPT !.builtin_jinja_filters = @ \cup filter_names]

\* The module-level tables after an attempt: env.filters.update reads them,
\* and the stubs are assigned into env.filters.
TablesAfterAttempt(tables, filter_names) == tables

\* The filters the compiled expression applies.  DAExtension.filter_stream
\* adds ampersand_filter to every {{ }} expression.
FiltersUsed(item) ==
    CASE item.t = "var" -> {item.f, "ampersand_filter"}
      [] item.t = "block" -> {item.f}
      [] item.t \in {"bare", "quoted"} -> {"ampersand_filter"}
      [] OTHER -> {}

\* Whether rendering meets an exception at this item.
Raises(item, filters) ==
    \/ item.t \in {"broken", "fault", "stuck"}
    \/ ~(FiltersUsed(item) \subseteq filters)

\* The exception raised at item i: its class, str(e), docx_context.
ExceptionAt(item, i) ==
    CASE item.t = "broken" ->
           [exc |-> "TemplateSyntaxError",
            str |-> <<"unexpected token in expression ", ToString(i)>>,
            docx_context |-> << <<"expression ", ToString(i)>> >>]
      [] item.t = "fault" ->
           [exc |-> "Exception",
            str |-> <<"render failed in expression ", ToString(i)>>,
            docx_context |-> <<>>]
      [] OTHER ->
           [exc |-> "TemplateSyntaxError",
            str |-> <<"No filter named", " '", item.f, "'">>,
            docx_context |-> <<>>]

\* doc.render({}, jinja_env=env): the first exception met, if any.
Render(doc, filters) ==
    LET raising == { i \in 1..Len(doc) : Raises(doc[i], filters) }
    IN IF raising = {} THEN [exc |-> "none", str |-> <<>>, docx_context |-> <<>>]
       ELSE LET i == CHOOSE j \in raising : \A k \in raising : j <= k
            IN ExceptionAt(doc[i], i)

\* The message recorded for a TemplateSyntaxError.
SyntaxErrorMessage(e) ==
    LET context == Join("\n", [i \in 1..Len(e.docx_context) |->
                                   <<"  ">> \o e.docx_context[i]])
    IN IF e.docx_context # <<>>
          THEN e.str \o <<"\n\nContext:\n">> \o context
          ELSE e.str

\* The message recorded for any other exception.
FailureMessage(e) == <<"Validation with stubbed filters failed: ">> \o e.str

\* A validation whose second except clause returns the result unchanged.
validate_swallowing_faults(docx, filter_names) ==
    LET e == Render(docx, EnvFilters(filter_names))
    IN CASE e.exc = "TemplateSyntaxError" ->
              add_syntax_error(NewValidationResult, SyntaxErrorMessage(e))
         [] OTHER -> NewValidationResult

\* A validation that records the context as an error of its own.
validate_recording_context_apart(docx, filter_names) ==
    LET e == Render(docx, EnvFilters(filter_names))
    IN CASE e.exc = "none" -> NewValidationResult
         [] e.exc = "TemplateSyntaxError" ->
              add_syntax_error(
                  add_syntax_error(NewValidationResult, e.str),
                  <<"Context:">>)
         [] OTHER ->
              add_syntax_error(NewValidationResult, FailureMessage(e))

validate_with_stubbed_filters(docx, filter_names) ==
    LET e == Render(docx, EnvFilters(filter_names))
    IN CASE e.exc = "none" -> NewValidationResult
         [] e.exc = "TemplateSyntaxError" ->
              add_syntax_error(NewValidationResult, SyntaxErrorMessage(e))
         [] OTHER ->
              add_syntax_error(NewValidationResult, FailureMessage(e))

\* extract_filters_from_docx: the names the regular expression captures, or
\* the empty set when reading the document raises.
extract_filters_from_docx(docx, raises) ==
    IF raises THEN {}
    ELSE { docx[i].f : i \in { j \in 1..Len(docx) :
                                 /\ docx[j].t \in {"var", "quoted", "broken", "stuck"}
                                 /\ docx[j].f # "" } }

----------------------------------------------------------------------------
\* get_jinja_errors_with_warnings.

\* A cap that allows one more round.
LateCap == 10 + 1

max_iterations == 10

\* "No filter named" in error
IsFilterError(error) == Contains(error, "No filter named")

IsOtherError(error) == ~IsFilterError(error)

\* Where re.search(r"No filter named '([^']+)'", error) can match.
FilterMatches(error) ==
    { i \in DOMAIN error :
        /\ error[i] = "No filter named"
        /\ i + 3 <= Len(error)
        /\ error[i + 1] = " '"
        /\ error[i + 2] # ""
        /\ error[i + 3] = "'" }

\* group(1) of the first match.
FilterNameOf(error) ==
    LET i == CHOOSE j \in FilterMatches(error) :
                 \A k \in FilterMatches(error) : j <= k
    IN error[i + 2]

\* A record that appends nothing.
RecordNothing(acc, errors) == acc

\* "for error in errors: if error not in all_syntax_errors: add and append",
\* on acc = [list |-> result.syntax_errors, seen |-> all_syntax_errors].
RECURSIVE RecordNew(_, _)
RecordNew(acc, errors) ==
    IF errors = <<>> THEN acc
    ELSE LET error == Head(errors)
             next == IF error \in acc.seen THEN acc
                     ELSE [list |-> Append(acc.list, error),
                           seen |-> acc.seen \cup {error}]
         IN RecordNew(next, Tail(errors))

\* The names of the filter errors, stubbed before or not.
NamesOfFilterErrors(filter_errors, unknown) ==
    { FilterNameOf(filter_errors[i]) :
        i \in { j \in DOMAIN filter_errors :
                  FilterMatches(filter_errors[j]) # {} } }

\* The names the filter errors add to all_unknown_filters.
NewFilterNames(filter_errors, unknown) ==
    { FilterNameOf(filter_errors[i]) :
        i \in { j \in DOMAIN filter_errors :
                  FilterMatches(filter_errors[j]) # {} } } \ unknown

\* A round that breaks without recording the filter errors when it finds no
\* new filter name.
LoopRoundSilentWhenStuck(validation, errors, seen, unknown) ==
    LET filter_errors == SelectSeq(validation.syntax_errors, IsFilterError)
        other_errors == SelectSeq(validation.syntax_errors, IsOtherError)
        kept == RecordNew([list |-> errors, seen |-> seen], other_errors)
        names == NewFilterNames(filter_errors, unknown)
    IN IF ~has_errors(validation)
          THEN [errors |-> errors, seen |-> seen, unknown |-> unknown,
                break |-> TRUE, found |-> FALSE]
       ELSE IF filter_errors = <<>> \/ names = {}
          THEN [errors |-> kept.list, seen |-> kept.seen, unknown |-> unknown,
                break |-> TRUE, found |-> FALSE]
       ELSE [errors |-> kept.list, seen |-> kept.seen,
             unknown |-> unknown \cup names, break |-> FALSE, found |-> TRUE]

\* One round of the for loop on the outcome of its attempt: the new
\* result.syntax_errors, all_syntax_errors and all_unknown_filters, and
\* whether the round ends in a break.
LoopRound(validation, errors, seen, unknown) ==
    LET filter_errors == SelectSeq(validation.syntax_errors, IsFilterError)
        other_errors == SelectSeq(validation.syntax_errors, IsOtherError)
        kept == RecordNew([list |-> errors, seen |-> seen], other_errors)
        names == NewFilterNames(filter_errors, unknown)
        found_new_filter == names # {}
        stuck == RecordNew(kept, filter_errors)
    IN IF ~has_errors(validation)
          THEN [errors |-> errors, seen |-> seen, unknown |-> unknown,
                break |-> TRUE, found |-> FALSE]
       ELSE IF filter_errors = <<>>
          THEN [errors |-> kept.list, seen |-> kept.seen, unknown |-> unknown,
                break |-> TRUE, found |-> FALSE]
       ELSE IF ~found_new_filter
          THEN [errors |-> stuck.list, seen |-> stuck.seen, unknown |-> unknown,
                break |-> TRUE, found |-> FALSE]
       ELSE [errors |-> kept.list, seen |-> kept.seen,
             unknown |-> unknown \cup names, break |-> FALSE, found |-> TRUE]

\* A report that forgets the names of the raw scan.
ReportedFiltersLoopOnly(unknown, raw) ==
    { filter_name \in unknown : filter_name \notin get_known_filters }

\* After the loop: the names reported as unknown filters.
ReportedFilters(unknown, raw) ==
    { filter_name \in unknown \cup raw : filter_name \notin get_known_filters }

\* The document of the current file.
the_file == changed[file_i].doc

\* Entry of get_jinja_errors_with_warnings (called by validate_bytes).
StartValidation ==
    /\ mpc = "loop"
    /\ file_i <= Len(changed)
    /\ changed[file_i].present
    /\ \E raises \in BOOLEAN :
          raw_filters' = extract_filters_from_docx(the_file, raises)
    /\ result' = NewValidationResult
    /\ all_unknown_filters' = {}
    /\ all_syntax_errors' = {}
    /\ iteration' = 0
    /\ attempts' = <<>>
    /\ stubbed' = {}
    /\ pc' = "loop"
    /\ mpc' = "validating"
    /\ UNCHANGED <<changed, crashed, file_i, invalid_files, missing_in_head, html_index,
                   validation_result, index_written, exit_status, validated, apartVars>>

\* One round of "for iteration in range(max_iterations)".
Iterate ==
    /\ mpc = "validating"
    /\ pc = "loop"
    /\ iteration < max_iterations
    /\ LET validation == validate_with_stubbed_filters(the_file, all_unknown_filters)
           round == LoopRound(validation, result.syntax_errors,
                              all_syntax_errors, all_unknown_filters)
       IN /\ result' = [result EXCEPT !.syntax_errors = round.errors]
          /\ all_syntax_errors' = round.seen
          /\ all_unknown_filters' = round.unknown
          /\ iteration' = iteration + 1
          /\ attempts' = Append(attempts,
                 [filter_names |-> all_unknown_filters,
                  exc |-> Render(the_file, EnvFilters(all_unknown_filters)).exc,
                  errors |-> validation.syntax_errors,
                  found |-> round.found])
          /\ stubbed' = stubbed \cup (round.unknown \ all_unknown_filters)
          /\ pc' = IF round.break \/ iteration + 1 >= max_iterations
                      THEN "post" ELSE "loop"
    /\ module_tables' = TablesAfterAttempt(module_tables, all_unknown_filters)
    /\ UNCHANGED <<mainVars, raw_filters, vr, streamVars, quoteVars, sentinelVars,
                   stubVars, installVars>>

\* The statements after the loop, and the return to main's try block.
Finish ==
    /\ mpc = "validating"
    /\ pc = "post"
    /\ all_unknown_filters' = all_unknown_filters \cup raw_filters
    /\ result' = [result EXCEPT !.unknown_filters =
                     @ \cup ReportedFilters(all_unknown_filters, raw_filters)]
    /\ validation_result' = result'
    /\ pc' = "returned"
    /\ mpc' = "report"
    /\ UNCHANGED <<changed, crashed, file_i, invalid_files, missing_in_head, html_index,
                   index_written, exit_status, validated, raw_filters,
                   all_syntax_errors, iteration, attempts, stubbed, apartVars>>

----------------------------------------------------------------------------
\* check_docx_templates.main.

HtmlHeader == <<"<h1>", "<p>", "<ul>">>

\* main up to the for loop.
MainStart ==
    /\ mpc = "start"
    /\ IF changed = <<>>
          THEN mpc' = "done" /\ exit_status' = 0
          ELSE mpc' = "loop" /\ exit_status' = exit_status
    /\ UNCHANGED <<changed, crashed, file_i, invalid_files, missing_in_head, html_index,
                   validation_result, index_written, validated, loopVars, apartVars>>

\* A file that read_file_at does not find at head.
SkipMissing ==
    /\ mpc = "loop"
    /\ file_i <= Len(changed)
    /\ ~changed[file_i].present
    /\ missing_in_head' = Append(missing_in_head, file_i)
    /\ file_i' = file_i + 1
    /\ UNCHANGED <<changed, crashed, mpc, invalid_files, html_index, validation_result,
                   index_written, exit_status, validated, loopVars, apartVars>>

\* validate_bytes raises before get_jinja_errors_with_warnings returns (the
\* temporary file cannot be written): main's except branch.
ValidationCrash ==
    /\ mpc = "loop"
    /\ file_i <= Len(changed)
    /\ changed[file_i].present
    /\ validation_result' =
          add_syntax_error(NewValidationResult, <<"Validation crashed: ", "OSError">>)
    /\ mpc' = "report"
    /\ crashed' = crashed \cup {file_i}
    /\ UNCHANGED <<changed, file_i, invalid_files, missing_in_head, html_index,
                   index_written, exit_status, validated, loopVars, apartVars>>

\* A count that takes a file with warnings only as invalid.
CountsInvalidOrWarned(error_message, warnings_message) ==
    Truthy(error_message) \/ Truthy(warnings_message)

\* Whether main counts the file as invalid: "if error_message or
\* warnings_message: if error_message: invalid_files += 1".
CountsInvalid(error_message, warnings_message) ==
    (Truthy(error_message) \/ Truthy(warnings_message)) /\ Truthy(error_message)

\* Whether main lists the file in html_index and writes its report.
HasReport(error_message, warnings_message) ==
    Truthy(error_message) \/ Truthy(warnings_message)

\* The rest of the loop body for a validated file.
Report ==
    /\ mpc = "report"
    /\ LET error_message == get_error_message(validation_result)
           warnings_message == get_warnings_message(validation_result)
       IN /\ invalid_files' = invalid_files
                + (IF CountsInvalid(error_message, warnings_message) THEN 1 ELSE 0)
          /\ html_index' = IF HasReport(error_message, warnings_message)
                              THEN Append(html_index, "<li>")
                              ELSE html_index
          /\ validated' = Append(validated,
                 [file |-> file_i, result |-> validation_result,
                  raw |-> raw_filters,
                  error_message |-> error_message,
                  warnings_message |-> warnings_message])
    /\ file_i' = file_i + 1
    /\ mpc' = "loop"
    /\ pc' = "idle"
    /\ UNCHANGED <<changed, crashed, missing_in_head, validation_result, index_written,
                   exit_status, result, raw_filters, all_unknown_filters,
                   all_syntax_errors, iteration, attempts, stubbed, apartVars>>

\* "has_issues = len(html_index) > 3"
HasIssues(index) == Len(index) > 3

\* main after the for loop.
MainFinish ==
    /\ mpc = "loop"
    /\ file_i > Len(changed)
    /\ html_index' = Append(html_index, "</ul>")
    /\ index_written' = HasIssues(html_index')
    /\ exit_status' = IF invalid_files > 0 THEN 1 ELSE 0
    /\ mpc' = "done"
    /\ UNCHANGED <<changed, crashed, file_i, invalid_files, missing_in_head,
                   validation_result, validated, loopVars, apartVars>>

----------------------------------------------------------------------------

\* ValidationResult driven through its methods by any caller.

ErrorTexts == { <<>>, <<"e1">>, <<"e2">> }
WarningTexts == { <<>>, <<"w1">> }
FilterTexts == { "Decimal", "yy", "zz" }

\* The number of entries the result holds.
Entries(r) ==
    Len(r.syntax_errors) + Len(r.warnings) + Cardinality(r.unknown_filters)

AddSyntaxError ==
    /\ Entries(vr) < MaxCalls
    /\ \E error \in ErrorTexts : vr' = add_syntax_error(vr, error)
    /\ UNCHANGED <<mainVars, loopVars, streamVars, restVars>>

AddUnknownFilter ==
    /\ Entries(vr) < MaxCalls
    /\ \E filter_name \in FilterTexts : vr' = add_unknown_filter(vr, filter_name)
    /\ UNCHANGED <<mainVars, loopVars, streamVars, restVars>>

AddWarning ==
    /\ Entries(vr) < MaxCalls
    /\ \E warning \in WarningTexts : vr' = add_warning(vr, warning)
    /\ UNCHANGED <<mainVars, loopVars, streamVars, restVars>>

----------------------------------------------------------------------------
\* DAExtension.filter_stream.  A token is its type and value (the line number
\* of an injected token is copied from the variable_end token and is left out).

Token(type, value) == [type |-> type, value |-> value]

\* The tokens of the lexer that the streams of the model are made of.
LexerTokens ==
    { Token("variable_begin", "{{"), Token("variable_end", "}}"),
      Token("block_begin", "{%"), Token("block_end", "%}"),
      Token("pipe", "|"), Token("name", "x") }

Streams == UNION { [1..k -> LexerTokens] : k \in 0..MaxStream }

\* met_pipe when the loop body reaches "if token.type == 'variable_end'".
\* The statement that would set it to True is commented out in the source.
MetPipeAt(token, met) ==
    IF token.type = "variable_begin" THEN FALSE ELSE met

\* A variant that yields the pipe without the filter name.
InjectedPipeOnly(token, met) ==
    IF token.type = "variable_end" /\ ~met
       THEN << Token("pipe", "None") >>
       ELSE <<>>

\* The tokens yielded before the token itself.
InjectedBefore(token, met) ==
    IF token.type = "variable_end" /\ ~met
       THEN << Token("pipe", "None"), Token("name", "ampersand_filter") >>
       ELSE <<>>

\* One round of "for token in stream".
FilterStreamStep ==
    /\ pos <= Len(stream)
    /\ LET token == stream[pos]
           met == MetPipeAt(token, met_pipe)
           injected == InjectedBefore(token, met)
       IN /\ met_pipe' = met
          /\ out' = out \o injected \o <<token>>
          /\ injected_at' = IF injected # <<>> THEN injected_at \cup {pos}
                            ELSE injected_at
    /\ pos' = pos + 1
    /\ UNCHANGED <<mainVars, loopVars, vr, stream, restVars>>

----------------------------------------------------------------------------
\* DAEnvironment.from_string and fix_quotes.  A text is a sequence of
\* characters; the typographic quotes are written by their code points.

LeftDouble == "u201c"
RightDouble == "u201d"
LeftSingle == "u2018"
RightSingle == "u2019"
Entity == << "&", "a", "m", "p", ";" >>

\* A variant that leaves the entity alone.
RECURSIVE fix_quotes_only(_, _)
fix_quotes_only(instring, i) ==
    IF i > Len(instring) THEN <<>>
    ELSE IF instring[i] = LeftDouble \/ instring[i] = RightDouble
        THEN << "\"" >> \o fix_quotes_only(instring, i + 1)
    ELSE IF instring[i] = LeftSingle \/ instring[i] = RightSingle
        THEN << "'" >> \o fix_quotes_only(instring, i + 1)
    ELSE << instring[i] >> \o fix_quotes_only(instring, i + 1)

\* The while loop of fix_quotes from index i (counted from 1) to the end.
RECURSIVE fix_quotes_from(_, _)
fix_quotes_from(instring, i) ==
    IF i > Len(instring) THEN <<>>
    ELSE IF instring[i] = LeftDouble \/ instring[i] = RightDouble
        THEN << "\"" >> \o fix_quotes_from(instring, i + 1)
    ELSE IF instring[i] = LeftSingle \/ instring[i] = RightSingle
        THEN << "'" >> \o fix_quotes_from(instring, i + 1)
    ELSE IF /\ instring[i] = "&"
            /\ i + 4 <= Len(instring)
            /\ SubSeq(instring, i, i + 4) = Entity
        THEN << "&" >> \o fix_quotes_from(instring, i + 5)
    ELSE << instring[i] >> \o fix_quotes_from(instring, i + 1)

fix_quotes_keeping_entities(instring) == fix_quotes_only(instring, 1)

fix_quotes(instring) == fix_quotes_from(instring, 1)

\* The regular expression ({[\%\{].*?[\%\}]}) at index i of the text: the
\* index of the last character of the match, 0 when there is no match at i.
\* The dot matches no newline and the star takes as few characters as it can.
MatchEnd(text, i) ==
    LET n == Len(text)
        ends == { j \in (i + 2)..(n - 1) :
                    /\ text[j] \in {"%", "}"}
                    /\ text[j + 1] = "}"
                    /\ \A k \in (i + 2)..(j - 1) : text[k] # "\n" }
    IN IF /\ i + 1 <= n
          /\ text[i] = "{"
          /\ text[i + 1] \in {"%", "{"}
          /\ ends # {}
          THEN (CHOOSE j \in ends : \A k \in ends : j <= k) + 1
          ELSE 0

\* re.sub(regex, fix_quotes, source) from index i to the end of the text.
RECURSIVE sub_fix_quotes(_, _)
sub_fix_quotes(text, i) ==
    IF i > Len(text) THEN <<>>
    ELSE LET e == MatchEnd(text, i)
         IN IF e = 0
               THEN << text[i] >> \o sub_fix_quotes(text, i + 1)
               ELSE fix_quotes(SubSeq(text, i, e)) \o sub_fix_quotes(text, e + 1)

\* The source that from_string passes to Environment.from_string.
from_string(text) == sub_fix_quotes(text, 1)

\* The texts of the model: one delimited expression or statement between two
\* pieces of other text.
InnerPieces ==
    { << "&" >>, << "a", "m", "p", ";" >>, << LeftDouble >>, << RightDouble >>,
      << LeftSingle >>, << RightSingle >>, << "x" >>, << "\n" >> }

RECURSIVE Flatten(_)
Flatten(pieces) ==
    IF pieces = <<>> THEN <<>> ELSE Head(pieces) \o Flatten(Tail(pieces))

Inners == { Flatten(p) : p \in UNION { [1..k -> InnerPieces] : k \in 0..MaxInner } }

Outsides == { <<>>, << LeftDouble >> \o Entity }

Sources ==
    { before \o open \o inner \o close \o after :
        before \in Outsides, after \in Outsides, inner \in Inners,
        open \in { << "{", "{" >>, << "{", "%" >> },
        close \in { << "}", "}" >>, << "%", "}" >> } }

FromString ==
    /\ qpc = "given"
    /\ parsed' = from_string(source)
    /\ qpc' = "parsed"
    /\ UNCHANGED <<mainVars, loopVars, vr, streamVars, sentinelVars, moduleVars,
                   stubVars, installVars, source, reparsed>>

FromStringAgain ==
    /\ qpc = "parsed"
    /\ reparsed' = from_string(parsed)
    /\ qpc' = "reparsed"
    /\ UNCHANGED <<mainVars, loopVars, vr, streamVars, sentinelVars, moduleVars,
                   stubVars, installVars, source, parsed>>

----------------------------------------------------------------------------
\* CallAndDebugUndefined.  A Python value is its kind and a text that tells
\* the values of one kind apart; for a sentinel the text is its identity.

Sentinel(id) == [kind |-> "sentinel", v |-> id]
PyBool(b) == [kind |-> "bool", v |-> b]
PyInt(n) == [kind |-> "int", v |-> n]
PyStr(t) == [kind |-> "str", v |-> t]
Method(name) == [kind |-> "method", v |-> name]
Raised(exception) == [kind |-> "raised", v |-> exception]
NoneValue == [kind |-> "none", v |-> "None"]

Sentinels == { Sentinel("s1"), Sentinel("s2") }

\* The operands of the model.
Operands == Sentinels \cup { PyInt("1"), PyStr("x"), NoneValue }

\* The names tried in an attribute access: three that the class defines and
\* two that no class of the sentinel defines.
ClassAttributes == { "number", "as_noun", "full" }
AttributeNames == ClassAttributes \cup { "foo", "__html__" }

\* The positional arguments of a call.
ArgumentLists ==
    { <<>>, << PyInt("1") >>, << Sentinel("s1") >>,
      << Sentinel("s2"), PyStr("x") >> }

__call__(self, pargs) == self

__getattr__(self, name) == self

__lt__(self, other) == PyBool("True")

\* A > that answers as < does.
GtAnsweringTrue(self, other) == PyBool("True")

__gt__(self, other) == PyBool("False")

__add__(self, other) == self

\* Undefined.__sub__, which the class overrides.
Undefined__sub__(self, other) == Raised("UndefinedError")

__sub__(self, other) == self

\* str(self) of DebugUndefined: the expression that was undefined.
__format__(self, spec) == PyStr("{{ undefined }}")

__getitem__(self, key) == __getattr__(self, key)

\* Undefined.__mul__, which the class inherits.
__mul__(self, other) == Raised("UndefinedError")

\* self.name: the class attribute when there is one, __getattr__ otherwise.
AttributeOf(self, name) ==
    IF name \in ClassAttributes THEN Method(name) ELSE __getattr__(self, name)

\* One operation on the value the chain has reached, a sentinel.
Apply(op, operand, value, returns_self) ==
    /\ obj.kind = "sentinel"
    /\ steps < MaxChain
    /\ obj' = value
    /\ steps' = steps + 1
    /\ last_op' = [op |-> op, operand |-> operand]
    /\ absorbing' = (absorbing /\ returns_self)
    /\ UNCHANGED <<mainVars, loopVars, vr, streamVars, quoteVars, moduleVars,
                   stubVars, installVars, origin>>

SentinelCall ==
    \E pargs \in ArgumentLists :
        Apply("call", IF pargs = <<>> THEN NoneValue ELSE pargs[1],
              __call__(obj, pargs), TRUE)

SentinelGetAttr ==
    \E name \in AttributeNames :
        Apply("getattr", PyStr(name), AttributeOf(obj, name),
              name \notin ClassAttributes)

SentinelGetItem ==
    \E key \in Operands : Apply("getitem", key, __getitem__(obj, key), TRUE)

SentinelLt ==
    \E other \in Operands : Apply("lt", other, __lt__(obj, other), FALSE)

SentinelGt ==
    \E other \in Operands : Apply("gt", other, __gt__(obj, other), FALSE)

SentinelAdd ==
    \E other \in Operands : Apply("add", other, __add__(obj, other), TRUE)

SentinelSub ==
    \E other \in Operands : Apply("sub", other, __sub__(obj, other), TRUE)

SentinelFormat ==
    Apply("format", PyStr(""), __format__(obj, PyStr("")), FALSE)

SentinelMul ==
    \E other \in Operands : Apply("mul", other, __mul__(obj, other), FALSE)

----------------------------------------------------------------------------
\* The entries that validate_with_stubbed_filters puts in env.filters.

\* The module-level null_func: lambda *args, **kwargs: args[0]
null_func(args, kwargs) ==
    IF args = <<>> THEN Raised("IndexError") ELSE args[1]

\* The null_func of validate_with_stubbed_filters:
\* lambda *args, **kwargs: args[0] if args else ""
stub_null_func(args, kwargs) ==
    IF args # <<>> THEN args[1] ELSE PyStr("")

\* iter(value): the elements of a str or of an undefined value (which has
\* none); other values of the model are not iterable.
Iterable(value) == value.kind \in {"str", "sentinel"}

Elements(value) ==
    IF value.kind = "str" /\ value.v # "" THEN { PyStr(value.v) } ELSE {}

\* The builtins any and all: one positional argument, an iterable.
any(args, kwargs) ==
    IF Len(args) # 1 \/ kwargs \/ ~Iterable(args[1]) THEN Raised("TypeError")
    ELSE IF Elements(args[1]) # {} THEN PyBool("True") ELSE PyBool("False")

all(args, kwargs) ==
    IF Len(args) # 1 \/ kwargs \/ ~Iterable(args[1]) THEN Raised("TypeError")
    ELSE PyBool("True")

\* The filter names the loop can pass to validate_with_stubbed_filters.
StubNames == { "yy", "zz" }

\* The keys that env.filters.update and the stub loop write.
EntriesPut(filter_names) ==
    builtin_jinja_filters \cup builtin_docassemble_jinja_filters
    \cup filter_names

\* env.filters[name](*args, **kwargs) after lines 316-322.
CallFilter(name, filter_names, args, kwargs) ==
    IF name \in filter_names THEN stub_null_func(args, kwargs)
    ELSE IF name = "any" THEN any(args, kwargs)
    ELSE IF name = "all" THEN all(args, kwargs)
    ELSE null_func(args, kwargs)

NotCalled == [name |-> "", args |-> <<>>, kwargs |-> FALSE]

CallEntry ==
    /\ called = NotCalled
    /\ \E name \in EntriesPut(stub_names), args \in ArgumentLists,
          kwargs \in BOOLEAN :
          /\ called' = [name |-> name, args |-> args, kwargs |-> kwargs]
          /\ returned' = CallFilter(name, stub_names, args, kwargs)
    /\ UNCHANGED <<mainVars, loopVars, vr, streamVars, quoteVars, sentinelVars,
                   moduleVars, installVars, stub_names>>

----------------------------------------------------------------------------
\* da_install.install_to_server.  A response is its status code and the
\* fields of its JSON body that the function reads.

\* requests.Response.ok
ok(status_code) == status_code < 400

\* The bodies of a polling response: status, the ok field ("absent" when the
\* body has none) and whether it has an error_message.
PollBodies ==
    [status : {"working", "completed", "unknown", "pending"},
     ok : {"absent", "true", "false", "null"},
     error_message : BOOLEAN]

NoBody == [status |-> "", ok |-> "absent", error_message |-> FALSE]

\* body.get('ok', True), as a condition
OkOrDefault(body) == body.ok \in {"absent", "true"}

Return(code) ==
    /\ retval' = code
    /\ ipc' = "returned"

\* The install request and what follows it up to the loop.
Install ==
    /\ ipc = "start"
    /\ \E status_code \in {200, 204, 500}, has_task_id \in BOOLEAN :
          /\ resp' = [status_code |-> status_code, task_id |-> has_task_id]
          /\ IF ~ok(status_code) THEN Return(1)
             ELSE IF status_code = 204 THEN Return(0)
             ELSE IF ~has_task_id THEN ipc' = "raised" /\ retval' = retval
             ELSE ipc' = "polling" /\ retval' = retval
    /\ sleep_count' = 0
    /\ UNCHANGED <<mainVars, loopVars, vr, streamVars, quoteVars, sentinelVars,
                   moduleVars, stubVars, polls, working_polls, other_polls,
                   last_body>>

\* One round of "while sleep_count < 10", and the return after the loop when
\* this round was its last.
Poll ==
    /\ ipc = "polling"
    /\ sleep_count < 10
    /\ polls < MaxPolls
    /\ polls' = polls + 1
    /\ \E status_code \in {200, 500}, body \in PollBodies :
          LET slept == IF body.status = "working"
                          THEN sleep_count + 1 ELSE sleep_count
          IN IF ~ok(status_code)
                THEN /\ Return(2)
                     /\ UNCHANGED <<sleep_count, working_polls, other_polls,
                                    last_body>>
             ELSE /\ last_body' = body
                  /\ sleep_count' = slept
                  /\ working_polls' = IF body.status = "working"
                                         THEN working_polls + 1
                                         ELSE working_polls
                  /\ other_polls' =
                        IF body.status \in {"working", "completed", "unknown"}
                           THEN other_polls ELSE other_polls + 1
                  /\ IF body.status = "completed"
                        THEN IF OkOrDefault(body) THEN Return(0)
                             ELSE IF body.error_message THEN Return(3)
                             ELSE ipc' = "raised" /\ retval' = retval
                     ELSE IF body.status = "unknown" THEN Return(4)
                     ELSE IF slept >= 10 THEN Return(5)
                     ELSE ipc' = "polling" /\ retval' = retval
    /\ UNCHANGED <<mainVars, loopVars, vr, streamVars, quoteVars, sentinelVars,
                   moduleVars, stubVars, resp>>

----------------------------------------------------------------------------
\* Initial states and specifications.

\* install_to_server before its first statement.
InstallAtStart ==
    /\ ipc = "start"
    /\ resp = [status_code |-> 0, task_id |-> FALSE]
    /\ sleep_count = 0
    /\ retval = -1
    /\ polls = 0
    /\ working_polls = 0
    /\ other_polls = 0
    /\ last_body = NoBody

\* validate_with_stubbed_filters has filled env.filters for the given names.
StubsAtStart(filter_names) ==
    /\ stub_names = filter_names
    /\ called = NotCalled
    /\ returned = NoneValue

\* A chain of operations about to start from the given value.
SentinelAtStart(value) ==
    /\ origin = value
    /\ obj = value
    /\ steps = 0
    /\ last_op = [op |-> "none", operand |-> NoneValue]
    /\ absorbing = TRUE

\* The module as imported.
ModuleAtStart ==
    module_tables =
        [builtin_jinja_filters |-> builtin_jinja_filters,
         builtin_docassemble_jinja_filters |-> builtin_docassemble_jinja_filters]

\* from_string called on the given text.
QuotesAtStart(text) ==
    /\ source = text
    /\ qpc = "given"
    /\ parsed = <<>>
    /\ reparsed = <<>>

\* The parts that neither main, the result nor the token stream involve, idle.
RestAtStart ==
    /\ QuotesAtStart(<<>>)
    /\ SentinelAtStart(NoneValue)
    /\ ModuleAtStart
    /\ StubsAtStart({})
    /\ InstallAtStart

\* main before its first statement, for the given list of changed files.
MainAtStart(files) ==
    /\ changed = files
    /\ mpc = "start"
    /\ file_i = 1
    /\ invalid_files = 0
    /\ missing_in_head = <<>>
    /\ html_index = HtmlHeader
    /\ validation_result = NewValidationResult
    /\ index_written = FALSE
    /\ exit_status = -1
    /\ validated = <<>>
    /\ crashed = {}
    /\ pc = "idle"
    /\ result = NewValidationResult
    /\ raw_filters = {}
    /\ all_unknown_filters = {}
    /\ all_syntax_errors = {}
    /\ iteration = 0
    /\ attempts = <<>>
    /\ stubbed = {}

\* filter_stream called on the given token stream.
StreamAtStart(tokens) ==
    /\ stream = tokens
    /\ pos = 1
    /\ met_pipe = FALSE
    /\ out = <<>>
    /\ injected_at = {}

\* check_docx_templates.main on a batch of changed files.
Init ==
    /\ \E files \in Batches : MainAtStart(files)
    /\ vr = NewValidationResult
    /\ StreamAtStart(<<>>)
    /\ RestAtStart

Next ==
    \/ MainStart
    \/ SkipMissing
    \/ ValidationCrash
    \/ StartValidation
    \/ Iterate
    \/ Finish
    \/ Report
    \/ MainFinish

Spec == Init /\ [][Next]_vars

\* A fresh ValidationResult and any sequence of calls of its add methods.
InitResult ==
    /\ MainAtStart(<<>>)
    /\ vr = NewValidationResult
    /\ StreamAtStart(<<>>)
    /\ RestAtStart

NextResult ==
    \/ AddSyntaxError
    \/ AddUnknownFilter
    \/ AddWarning

SpecResult == InitResult /\ [][NextResult]_vars

\* filter_stream on any token stream.
InitStream ==
    /\ MainAtStart(<<>>)
    /\ vr = NewValidationResult
    /\ \E tokens \in Streams : StreamAtStart(tokens)
    /\ RestAtStart

NextStream == FilterStreamStep

SpecStream == InitStream /\ [][NextStream]_vars

\* from_string on any text of the model, and again on its own output.
InitQuotes ==
    /\ MainAtStart(<<>>)
    /\ vr = NewValidationResult
    /\ StreamAtStart(<<>>)
    /\ \E text \in Sources : QuotesAtStart(text)
    /\ SentinelAtStart(NoneValue)
    /\ ModuleAtStart
    /\ StubsAtStart({})
    /\ InstallAtStart

NextQuotes ==
    \/ FromString
    \/ FromStringAgain

SpecQuotes == InitQuotes /\ [][NextQuotes]_vars

\* Any chain of operations on a sentinel.
InitSentinel ==
    /\ MainAtStart(<<>>)
    /\ vr = NewValidationResult
    /\ StreamAtStart(<<>>)
    /\ QuotesAtStart(<<>>)
    /\ \E s \in Sentinels : SentinelAtStart(s)
    /\ ModuleAtStart
    /\ StubsAtStart({})
    /\ InstallAtStart

NextSentinel ==
    \/ SentinelCall
    \/ SentinelGetAttr
    \/ SentinelGetItem
    \/ SentinelLt
    \/ SentinelGt
    \/ SentinelAdd
    \/ SentinelSub
    \/ SentinelFormat
    \/ SentinelMul

SpecSentinel == InitSentinel /\ [][NextSentinel]_vars

\* One call of any entry put in env.filters, for any set of stubbed names.
InitStubs ==
    /\ MainAtStart(<<>>)
    /\ vr = NewValidationResult
    /\ StreamAtStart(<<>>)
    /\ QuotesAtStart(<<>>)
    /\ SentinelAtStart(NoneValue)
    /\ ModuleAtStart
    /\ \E filter_names \in SUBSET StubNames : StubsAtStart(filter_names)
    /\ InstallAtStart

NextStubs == CallEntry

SpecStubs == InitStubs /\ [][NextStubs]_vars

\* install_to_server against any sequence of server responses.
InitInstall ==
    /\ MainAtStart(<<>>)
    /\ vr = NewValidationResult
    /\ StreamAtStart(<<>>)
    /\ RestAtStart

NextInstall ==
    \/ Install
    \/ Poll

SpecInstall == InitInstall /\ [][NextInstall]_vars

----------------------------------------------------------------------------
\* Properties of get_jinja_errors_with_warnings.

\* The call has run to its return statement; main has not yet moved on.
Returned == pc = "returned"

\* The filter table of an attempt made with nothing stubbed.
TableFilters == EnvFilters({})

\* The filters a document references explicitly.
UsesOf(doc) == { doc[i].f : i \in { j \in DOMAIN doc : doc[j].t \in {"var", "block"} } }

\* A document in which every expression follows the grammar and an attempt
\* can only fail on a filter that its table does not hold.
NoGrammarError(doc) ==
    \A i \in DOMAIN doc : doc[i].t \in {"var", "block", "bare", "quoted"}

\* A document in which every expression follows the grammar.
NotMalformed(doc) ==
    \A i \in DOMAIN doc :
        doc[i].t \in {"var", "block", "bare", "quoted", "fault"}

\* The message an attempt records for the grammar error at item i.
GrammarErrorAt(doc, i) == SyntaxErrorMessage(ExceptionAt(doc[i], i))

\* Every attempt of the call failed on a filter name not stubbed before.
EveryAttemptFoundNew == \A i \in DOMAIN attempts : attempts[i].found

\* The last attempt of the call raised nothing.
LastAttemptSucceeded ==
    attempts # <<>> /\ attempts[Len(attempts)].errors = <<>>

\* C1: when each of the 10 attempts fails on an unknown filter that was not yet
\* stubbed, the returned result reports a syntax error.
C1_CapReportsError ==
    (Returned /\ Len(attempts) = max_iterations /\ EveryAttemptFoundNew)
        => has_errors(result)

\* C2: for a document made of filter uses and grammar errors, with at least
\* one grammar error and at least one unknown filter, the returned result
\* holds the message of a grammar error of the document.
C2_GrammarErrorReported ==
    (/\ Returned
     /\ \A i \in DOMAIN the_file :
            the_file[i].t \in {"var", "block", "bare", "quoted", "broken"}
     /\ \E i \in DOMAIN the_file : the_file[i].t = "broken"
     /\ UsesOf(the_file) \ TableFilters # {})
        => \E i \in DOMAIN the_file :
              /\ the_file[i].t = "broken"
              /\ Contains(result.syntax_errors, GrammarErrorAt(the_file, i))

\* What C3 promises of a call: it ended with a successful attempt, made at
\* most |F| + 1 attempts, and reports F minus the allowlist.
DiscoveryComplete(F) ==
    /\ LastAttemptSucceeded
    /\ Len(attempts) <= Cardinality(F) + 1
    /\ result.unknown_filters = F \ get_known_filters

\* C3 as stated: for every document with no grammar error whose filters F are
\* all outside the filter table, discovery is complete.
C3_DiscoveryCompleteAnySize ==
    (/\ Returned
     /\ NoGrammarError(the_file)
     /\ UsesOf(the_file) \cap TableFilters = {})
        => DiscoveryComplete(UsesOf(the_file))

\* C3 as stated, for documents whose raw scan captures only names of F: it
\* still fails, at the iteration cap.
C3_DiscoveryCompleteScanExact ==
    (/\ Returned
     /\ NoGrammarError(the_file)
     /\ UsesOf(the_file) \cap TableFilters = {}
     /\ raw_filters \subseteq UsesOf(the_file))
        => DiscoveryComplete(UsesOf(the_file))

\* C3 amended: the same for documents with fewer than max_iterations filters
\* in F whose raw scan captures only names of F.
C3_DiscoveryCompleteBelowCap ==
    (/\ Returned
     /\ NoGrammarError(the_file)
     /\ UsesOf(the_file) \cap TableFilters = {}
     /\ Cardinality(UsesOf(the_file)) < max_iterations
     /\ raw_filters \subseteq UsesOf(the_file))
        => DiscoveryComplete(UsesOf(the_file))

\* A call that needed all 10 attempts to discover 9 filters and reports them.
C3_Witness ==
    /\ Returned
    /\ NoGrammarError(the_file)
    /\ UsesOf(the_file) \cap TableFilters = {}
    /\ raw_filters \subseteq UsesOf(the_file)
    /\ Cardinality(UsesOf(the_file)) = max_iterations - 1
    /\ Len(attempts) = max_iterations
    /\ Cardinality(result.unknown_filters) = max_iterations - 1
    /\ DiscoveryComplete(UsesOf(the_file))

\* C5: a document whose expressions all follow the grammar and whose filters
\* are all in the filter table or in the allowlist gets a result with no
\* syntax errors.
C5_KnownFiltersNoErrors ==
    (/\ Returned
     /\ NotMalformed(the_file)
     /\ UsesOf(the_file) \subseteq TableFilters \cup get_known_filters)
        => ~has_errors(result)

\* The part of C5 that holds: the same for the documents in which no
\* expression raises when it is rendered with known filters, even when all 10
\* attempts are used up on allowlisted names that the table does not hold.
KnownFiltersNoErrorsIfNoFault ==
    (/\ Returned
     /\ NoGrammarError(the_file)
     /\ UsesOf(the_file) \subseteq TableFilters \cup get_known_filters)
        => ~has_errors(result)

\* C8: the reported unknown filters are the names stubbed during the loop
\* together with the names of the raw scan, minus the allowlist.
C8_AllowlistFiltering ==
    Returned =>
        /\ result.unknown_filters = (stubbed \cup raw_filters) \ get_known_filters
        /\ result.unknown_filters \cap get_known_filters = {}

\* A call stopped by a terminal error that reports a name only the raw scan
\* saw, and that stubbed an allowlisted name which it does not report.
C8_Witness ==
    /\ Returned
    /\ has_errors(result)
    /\ (raw_filters \ stubbed) \cap result.unknown_filters # {}
    /\ stubbed \cap get_known_filters # {}
    /\ result.unknown_filters = (stubbed \cup raw_filters) \ get_known_filters

\* C4: a call makes at most 10 attempts.  The loop variable counts them;
\* inside the loop it is below the cap, so that the next round can be taken
\* (the guard of Iterate holds); after the loop the call can return (the
\* guard of Finish holds), and what it returns is the accumulated result.
C4_Termination ==
    /\ Len(attempts) <= 10
    /\ pc \in {"loop", "post", "returned"} => iteration = Len(attempts)
    /\ pc = "loop" => mpc = "validating" /\ iteration < max_iterations
    /\ pc = "post" => mpc = "validating"
    /\ Returned => mpc = "report" /\ validation_result = result

\* A call that reached the cap without convergence and returned its result.
C4_Witness ==
    /\ Returned
    /\ Len(attempts) = 10
    /\ EveryAttemptFoundNew
    /\ validation_result = result

----------------------------------------------------------------------------
\* Properties of check_docx_templates.main.

\* The reported files whose validation result has syntax errors.
FilesWithErrors ==
    { i \in DOMAIN validated : has_errors(validated[i].result) }

\* C6: main counts exactly the files whose result has syntax errors, exits
\* with status 1 exactly when there is one among the files present at head,
\* and the message of such a file joins all of its syntax errors.
C6_Acceptance ==
    /\ invalid_files = Cardinality(FilesWithErrors)
    /\ \A i \in FilesWithErrors :
          validated[i].error_message =
              Some(Join("\n\n", validated[i].result.syntax_errors))
    /\ mpc = "done" =>
          /\ { validated[i].file : i \in DOMAIN validated }
                 = { j \in DOMAIN changed : changed[j].present }
          /\ exit_status = 1 <=> FilesWithErrors # {}
          /\ exit_status \in {0, 1}

\* A finished batch of two files, one with warnings only and one with a
\* syntax error: the first is not counted and the exit status is 1.
C6_Witness ==
    /\ mpc = "done"
    /\ Len(validated) = 2
    /\ \E i \in DOMAIN validated :
          /\ ~has_errors(validated[i].result)
          /\ has_warnings(validated[i].result)
    /\ invalid_files = 1
    /\ exit_status = 1

\* C7: an attempt whose rendering raised, whatever the exception, returns a
\* result with exactly one syntax error (and an attempt that raised nothing
\* returns none); a file whose validation raised in main gets a result with
\* exactly one syntax error, and every file present at head is reported.
C7_FaultContainment ==
    /\ \A i \in DOMAIN attempts :
          Len(attempts[i].errors) = (IF attempts[i].exc = "none" THEN 0 ELSE 1)
    /\ \A i \in DOMAIN validated :
          validated[i].file \in crashed =>
              Len(validated[i].result.syntax_errors) = 1
    /\ Returned => validation_result = result
    /\ mpc = "done" =>
          { validated[i].file : i \in DOMAIN validated }
              = { j \in DOMAIN changed : changed[j].present }

\* A finished batch whose first file crashed in main and whose second file
\* was still validated, its rendering fault recorded as one syntax error.
C7_Witness ==
    /\ mpc = "done"
    /\ Len(validated) = 2
    /\ validated[1].file \in crashed
    /\ validated[2].file \notin crashed
    /\ attempts # <<>>
    /\ attempts[Len(attempts)].exc = "Exception"
    /\ validated[2].result.syntax_errors = attempts[Len(attempts)].errors

----------------------------------------------------------------------------
\* Properties of ValidationResult.

\* C9: has_errors is true exactly when syntax_errors is non-empty,
\* has_warnings exactly when warnings or unknown_filters is non-empty, and
\* each message is None exactly when its flag is false.
C9_ResultInvariants ==
    /\ has_errors(vr) <=> vr.syntax_errors # <<>>
    /\ has_warnings(vr) <=> (vr.warnings # <<>> \/ vr.unknown_filters # {})
    /\ get_error_message(vr) = None <=> ~has_errors(vr)
    /\ get_warnings_message(vr) = None <=> ~has_warnings(vr)

\* A result whose only error is the empty string and whose only warning is an
\* unknown filter: both messages are strings, the error message the empty one.
C9_Witness ==
    /\ vr.syntax_errors = << <<>> >>
    /\ vr.warnings = <<>>
    /\ vr.unknown_filters = {"zz"}
    /\ get_error_message(vr) = Some(<<>>)
    /\ get_warnings_message(vr) = Some(<<"Unknown filters detected: ", "zz">>)

----------------------------------------------------------------------------
\* Properties of DAExtension.filter_stream.

\* The variable expression that ends at token j starts at token i: i is the
\* last variable_begin before j, with no other variable_end in between.
ExpressionFromTo(i, j) ==
    /\ i < j
    /\ stream[i].type = "variable_begin"
    /\ stream[j].type = "variable_end"
    /\ \A k \in (i + 1)..(j - 1) :
          stream[k].type \notin {"variable_begin", "variable_end"}

\* C10: nothing is injected before the variable_end of a variable expression
\* that has a pipe token between its variable_begin and its variable_end.
C10_NoInjectionAfterPipe ==
    \A j \in 1..(pos - 1) :
        (\E i \in 1..(j - 1) :
            /\ ExpressionFromTo(i, j)
            /\ \E k \in (i + 1)..(j - 1) : stream[k].type = "pipe")
        => j \notin injected_at

\* A block statement from token i to token j: block_begin, block_end and no
\* delimiter token in between.
BlockFromTo(i, j) ==
    /\ i < j
    /\ stream[i].type = "block_begin"
    /\ stream[j].type = "block_end"
    /\ \A k \in (i + 1)..(j - 1) :
          stream[k].type \notin {"variable_begin", "variable_end",
                                 "block_begin", "block_end"}

\* The input tokens 1..n with a pipe and the name ampersand_filter placed
\* immediately before each token whose position is in the set at.
RECURSIVE WithInjections(_, _)
WithInjections(n, at) ==
    IF n = 0 THEN <<>>
    ELSE WithInjections(n - 1, at)
         \o (IF n \in at
                THEN << Token("pipe", "None"), Token("name", "ampersand_filter") >>
                ELSE <<>>)
         \o << stream[n] >>

\* C11: every variable expression without a pipe token is emitted with a pipe
\* and the name ampersand_filter immediately before its variable_end; the
\* output is the input in the same order apart from the injected pairs; no
\* token of a block statement has tokens injected before it.
C11_InjectionForBareExpressions ==
    /\ \A j \in 1..(pos - 1) :
          (\E i \in 1..(j - 1) :
              /\ ExpressionFromTo(i, j)
              /\ \A k \in (i + 1)..(j - 1) : stream[k].type # "pipe")
          => j \in injected_at
    /\ \A j \in injected_at : stream[j].type = "variable_end"
    /\ out = WithInjections(pos - 1, injected_at)
    /\ \A i, j \in 1..(pos - 1) :
          BlockFromTo(i, j) => injected_at \cap (i..j) = {}

\* A bare expression followed by a block statement, wholly emitted.
C11_Witness ==
    /\ stream = << Token("variable_begin", "{{"), Token("name", "x"),
                   Token("variable_end", "}}"), Token("block_begin", "{%"),
                   Token("block_end", "%}") >>
    /\ pos = Len(stream) + 1
    /\ out = << Token("variable_begin", "{{"), Token("name", "x"),
                Token("pipe", "None"), Token("name", "ampersand_filter"),
                Token("variable_end", "}}"), Token("block_begin", "{%"),
                Token("block_end", "%}") >>

----------------------------------------------------------------------------
\* Further properties of get_jinja_errors_with_warnings.

\* Attempt i failed with an unknown-filter error that names a filter of its
\* own stub set, and found no new filter name.
StuckAttempt(i) ==
    /\ ~attempts[i].found
    /\ \E k \in DOMAIN attempts[i].errors :
          LET error == attempts[i].errors[k]
          IN /\ IsFilterError(error)
             /\ FilterMatches(error) # {}
             /\ FilterNameOf(error) \in attempts[i].filter_names

\* C16: an attempt that fails with an unknown-filter error on a name already
\* stubbed, finding no new name, is the last attempt of the call and its
\* error is in the result's syntax_errors.
C16_StuckGuard ==
    \A i \in DOMAIN attempts :
        StuckAttempt(i) =>
            /\ i = Len(attempts)
            /\ pc # "loop"
            /\ \A k \in DOMAIN attempts[i].errors :
                  Contains(result.syntax_errors, attempts[i].errors[k])

\* The second attempt reports the name the first attempt had stubbed.
C16_Witness ==
    /\ Returned
    /\ Len(attempts) = 2
    /\ attempts[1].found
    /\ attempts[2].filter_names = {"zz"}
    /\ StuckAttempt(2)
    /\ result.syntax_errors = << <<"No filter named", " '", "zz", "'">> >>

\* What C17 promises of a call on a document whose one unresolved filter is X.
TwoAttemptsFor(X) ==
    /\ Len(attempts) = 2
    /\ attempts[1].filter_names = {}
    /\ attempts[1].errors = << <<"No filter named", " '", X, "'">> >>
    /\ attempts[2].filter_names = {X}
    /\ attempts[2].errors = <<>>
    /\ result.syntax_errors = <<>>
    /\ result.unknown_filters = {X}

\* C17: for a document with no grammar error whose filters outside the filter
\* table are one name X that the allowlist does not hold, the call makes two
\* attempts, the first failing on X with nothing stubbed and the second
\* succeeding with X stubbed, and returns no syntax error and {X}.
C17_SingleUnknownFilter ==
    Returned => \A X \in UsesOf(the_file) :
        (/\ NotMalformed(the_file)
         /\ UsesOf(the_file) \ TableFilters = {X}
         /\ X \notin get_known_filters)
            => TwoAttemptsFor(X)

\* The same for documents in which nothing raises but a missing filter and
\* whose raw scan captures no other name than X.
SingleUnknownFilterScanExact ==
    Returned => \A X \in UsesOf(the_file) :
        (/\ NoGrammarError(the_file)
         /\ UsesOf(the_file) \ TableFilters = {X}
         /\ X \notin get_known_filters
         /\ raw_filters \subseteq {X})
            => TwoAttemptsFor(X)

\* The first attempt failed and none of its errors is an unknown-filter error.
FirstAttemptFailedOtherwise ==
    /\ attempts # <<>>
    /\ attempts[1].errors # <<>>
    /\ \A k \in DOMAIN attempts[1].errors :
          ~Contains(attempts[1].errors[k], "No filter named")

\* The text of the document has no pipe followed by a name.
NoPipeInText(doc) ==
    \A i \in DOMAIN doc :
        \/ doc[i].t \in {"bare", "fault"}
        \/ doc[i].t = "broken" /\ doc[i].f = ""

\* C18: when the first attempt fails with an error that is no unknown-filter
\* error, the call makes that one attempt only and returns exactly one syntax
\* error, and no warning when the text of the document has no filter use.
C18_GrammarErrorStopsLoop ==
    FirstAttemptFailedOtherwise =>
        /\ Len(attempts) = 1
        /\ pc # "loop"
        /\ Len(result.syntax_errors) = 1
        /\ Returned /\ NoPipeInText(the_file)
              => ~has_warnings(result) /\ result.warnings = <<>>

\* A document without any pipe whose second expression violates the grammar.
C18_Witness ==
    /\ Returned
    /\ the_file = << Bare, Broken("") >>
    /\ FirstAttemptFailedOtherwise
    /\ Len(attempts) = 1
    /\ Len(result.syntax_errors) = 1
    /\ ~has_warnings(result)

\* The reports of files whose validation returned to main.
Returns == { i \in DOMAIN validated : validated[i].file \notin crashed }

\* C19: the module-level tables stay as imported; every call makes its first
\* attempt with nothing stubbed; two calls of one process on the same
\* document (with the same outcome of the raw scan) return the same result,
\* whatever was validated before each of them.
C19_PerDocumentIsolation ==
    /\ ModuleAtStart
    /\ attempts # <<>> => attempts[1].filter_names = {}
    /\ pc = "loop" /\ iteration = 0 => all_unknown_filters = {}
    /\ \A i, j \in Returns :
          (/\ changed[validated[i].file].doc = changed[validated[j].file].doc
           /\ validated[i].raw = validated[j].raw)
          => validated[i].result = validated[j].result

\* A document with an unknown filter validated first and again after a
\* document with a grammar error, its raw scan failing both times.
C19_Witness ==
    /\ Len(changed) = MaxFiles
    /\ changed[1].doc = << Var("zz") >>
    /\ changed[2].doc = << Var("zz"), Broken("yy") >>
    /\ changed[3].doc = << Var("zz") >>
    /\ Returns = {1, 2, 3}
    /\ validated[1].raw = {}
    /\ validated[3].raw = {}
    /\ validated[3].result = validated[1].result
    /\ validated[1].result.unknown_filters = {"zz"}

\* C21: within one call the stub set of every attempt after the first strictly
\* contains the stub set of the attempt before it, the current stub set
\* contains the set of every attempt, and attempt k has at least k - 1
\* stubbed names.
C21_MonotoneStubSet ==
    /\ \A k \in DOMAIN attempts :
          /\ Cardinality(attempts[k].filter_names) >= k - 1
          /\ k > 1 =>
                /\ attempts[k - 1].filter_names \subseteq attempts[k].filter_names
                /\ attempts[k - 1].filter_names # attempts[k].filter_names
    /\ pc \in {"loop", "post", "returned"} =>
          \A k \in DOMAIN attempts :
              attempts[k].filter_names \subseteq all_unknown_filters

\* A call whose tenth attempt is made with nine stubbed names.
C21_Witness ==
    /\ Returned
    /\ Len(attempts) = max_iterations
    /\ Cardinality(attempts[max_iterations].filter_names) = max_iterations - 1
    /\ attempts[2].filter_names = {"u01"}

\* C22: no key of builtin_jinja_filters or builtin_docassemble_jinja_filters
\* is in the unknown_filters of a returned result.
C22_PreSeededNeverReported ==
    Returned =>
        result.unknown_filters
            \cap (builtin_jinja_filters \cup builtin_docassemble_jinja_filters) = {}

\* C23: the syntax_errors of the result hold at most one entry, hence no
\* duplicate, and none while the loop goes on.
C23_AtMostOneSyntaxError ==
    /\ Len(result.syntax_errors) <= 1
    /\ pc = "loop" => result.syntax_errors = <<>>
    /\ \A k \in DOMAIN attempts : Len(attempts[k].errors) <= 1

\* A grammar error recorded by the third attempt, after two discoveries.
C23_Witness ==
    /\ Returned
    /\ Len(attempts) = 3
    /\ attempts[1].found /\ attempts[2].found
    /\ attempts[3].exc = "TemplateSyntaxError"
    /\ Len(result.syntax_errors) = 1
    /\ ~IsFilterError(result.syntax_errors[1])

----------------------------------------------------------------------------
\* Further properties of check_docx_templates.main.

\* The files main reported with an error message or a warnings message.
FilesWithIssues ==
    { i \in DOMAIN validated :
        \/ Truthy(validated[i].error_message)
        \/ Truthy(validated[i].warnings_message) }

\* C24: when main ends on a batch of at least one changed file, index.html
\* was written only if a validated file had an error or a warning.
C24_HtmlOnlyOnIssues ==
    (mpc = "done" /\ Len(changed) > 0 /\ index_written)
        => FilesWithIssues # {}

----------------------------------------------------------------------------
\* Properties of DAEnvironment.from_string and fix_quotes.

\* The whole text is one match of the delimiter regex.
WhollyMatched(text) == text # <<>> /\ MatchEnd(text, 1) = Len(text)

\* C12: fix_quotes applied to its own output on a matched region gives that
\* output again.
C12_FixQuotesIdempotent ==
    (qpc = "reparsed" /\ WhollyMatched(source) /\ WhollyMatched(parsed))
    => reparsed = parsed

\* str.replace(old, new) on a text: the occurrences of old are taken from
\* left to right and do not overlap.
RECURSIVE Replaced(_, _, _)
Replaced(text, old, new) ==
    IF text = <<>> THEN <<>>
    ELSE IF Len(text) >= Len(old) /\ SubSeq(text, 1, Len(old)) = old
        THEN new \o Replaced(SubSeq(text, Len(old) + 1, Len(text)), old, new)
    ELSE << Head(text) >> \o Replaced(Tail(text), old, new)

\* The result C13 gives for a matched region.
NormalizedRegion(s) ==
    Replaced(
        Replaced(
            Replaced(
                Replaced(
                    Replaced(s, << LeftDouble >>, << "\"" >>),
                    << RightDouble >>, << "\"" >>),
                << LeftSingle >>, << "'" >>),
            << RightSingle >>, << "'" >>),
        Entity, << "&" >>)

\* The indexes of the text at which the delimiter regex matches.
MatchStarts(text) == { i \in 1..Len(text) : MatchEnd(text, i) # 0 }

\* C13: the text handed to the parser is the source with its matched region
\* replaced by the region with straight quotes and with & for each &amp;,
\* and with the text before and after the region as it was.  (The texts of
\* the model have at most one region.)
C13_FixQuotesResult ==
    qpc = "parsed" =>
        IF MatchStarts(source) = {} THEN parsed = source
        ELSE LET b == CHOOSE i \in MatchStarts(source) :
                          \A k \in MatchStarts(source) : i <= k
                 e == MatchEnd(source, b)
                 after == Len(source) - e
             IN /\ Len(parsed) >= (b - 1) + after
                /\ SubSeq(parsed, 1, b - 1) = SubSeq(source, 1, b - 1)
                /\ SubSeq(parsed, Len(parsed) - after + 1, Len(parsed))
                      = SubSeq(source, e + 1, Len(source))
                /\ SubSeq(parsed, b, Len(parsed) - after)
                      = NormalizedRegion(SubSeq(source, b, e))

\* A region with a typographic quote and an entity, between two pieces of
\* text that hold them too.
C13_Witness ==
    /\ qpc = "parsed"
    /\ source = << LeftDouble >> \o Entity \o << "{", "{" >>
                 \o << RightSingle >> \o Entity \o << "}", "}" >>
                 \o << LeftDouble >> \o Entity
    /\ parsed = << LeftDouble >> \o Entity \o << "{", "{" >>
                 \o << "'", "&" >> \o << "}", "}" >>
                 \o << LeftDouble >> \o Entity

----------------------------------------------------------------------------
\* Properties of CallAndDebugUndefined.

\* C14: after any chain of calls, item accesses, additions, subtractions and
\* accesses of attributes that the class does not define, nothing was raised
\* and the value reached is the sentinel the chain started from.
C14_SentinelAbsorption ==
    absorbing => obj = origin /\ obj.kind = "sentinel"

\* A chain of three such operations that ends with a subtraction.
C14_Witness ==
    /\ absorbing
    /\ steps = MaxChain
    /\ last_op = [op |-> "sub", operand |-> Sentinel("s2")]
    /\ origin = Sentinel("s1")
    /\ obj = origin

\* C15: a sentinel is less than every value and greater than none, itself and
\* other sentinels included, and the comparison raises nothing.
C15_ComparisonAsymmetry ==
    /\ last_op.op = "lt" => obj = PyBool("True")
    /\ last_op.op = "gt" => obj = PyBool("False")

\* A sentinel compared with itself by >.
C15_Witness ==
    /\ last_op = [op |-> "gt", operand |-> origin]
    /\ origin \in Sentinels
    /\ obj = PyBool("False")

----------------------------------------------------------------------------
\* Properties of the entries of env.filters.

\* C20: every entry that validate_with_stubbed_filters puts in env.filters,
\* called with any arguments, returns its first positional argument, or an
\* empty value when it has none.
C20_StubBehaviour ==
    called # NotCalled =>
        returned = IF called.args # <<>> THEN called.args[1] ELSE PyStr("")

\* The same for the stubs of the discovered names alone.
DiscoveredStubsReturnFirstArgument ==
    (called # NotCalled /\ called.name \in stub_names) =>
        returned = IF called.args # <<>> THEN called.args[1] ELSE PyStr("")

----------------------------------------------------------------------------
\* Properties of da_install.install_to_server.

\* What C25 says of the value returned.
ReturnCodes ==
    /\ ipc = "returned" => retval \in 0..5
    /\ sleep_count <= 10
    /\ retval = 5 <=> (ipc = "returned" /\ working_polls = 10)
    /\ retval = 0 =>
          \/ resp.status_code = 204
          \/ last_body.status = "completed" /\ last_body.ok # "false"

\* C25: the value returned is as ReturnCodes says, and the function returns
\* after at most 10 waits whatever the status values are: every polling
\* request that does not make it return is followed by a wait, so that it
\* has returned once 10 requests were made.
C25_InstallPollingTerminates ==
    /\ ReturnCodes
    /\ ipc = "polling" => polls = sleep_count /\ polls < 10

\* The same when every poll reports working, completed or unknown.
PollingTerminatesOnKnownStatus ==
    other_polls = 0 => (ipc = "polling" => polls = sleep_count /\ polls < 10)

====
